---- MODULE Spec2Model ----
(***************************************************************************)
(* Model of src/ridwan.py: the deflection of a beam under a Gaussian load, *)
(* computed by an RK4 march (beam_deflection_rk4) and by a central-        *)
(* difference linear system (beam_deflection_central_difference).          *)
(*                                                                         *)
(* Numbers.  Under Spec the float64 values of the program are modelled as  *)
(* extended rationals <<n, d>>: d > 0 is the exact rational n/d in lowest  *)
(* terms, d = 0 is one of numpy's non-finite values (<<0,0>> nan,          *)
(* <<1,0>> inf, <<-1,0>> -inf).  Rounding and signed zeros are left out    *)
(* there.  SpecGrid models the grid of the RK4 march in binary64 itself,   *)
(* bit for bit, because the length of np.arange depends on the rounding,   *)
(* and SpecSolve does the same for the central-difference call on a grid   *)
(* of five points, because the result of np.linalg.solve does.             *)
(***************************************************************************)
EXTENDS Integers, Sequences, FiniteSets, TLC

(***************************************************************************)
(* Extended rational arithmetic (numpy float64 operators, non-signalling). *)
(***************************************************************************)
RECURSIVE Gcd(_, _)
Gcd(m, n) == IF n = 0 THEN m ELSE Gcd(n, m % n)

Abs(i) == IF i < 0 THEN -i ELSE i

Sign(i) == IF i < 0 THEN -1 ELSE IF i > 0 THEN 1 ELSE 0

NaN == <<0, 0>>

PInf == <<1, 0>>

NInf == <<-1, 0>>

Zero == <<0, 1>>

One == <<1, 1>>

Two == <<2, 1>>

Six == <<6, 1>>

IsFinite(q) == q[2] # 0

IsNaN(q) == q = NaN

\* n/d in lowest terms, d > 0
Norm(n, d) ==
    LET g == Gcd(Abs(n), d)
    IN  IF n = 0 THEN Zero ELSE <<n \div g, d \div g>>

FromInt(i) == <<i, 1>>

QNeg(x) == <<-x[1], x[2]>>

\* x + y; inf + (-inf) and anything with nan are nan
QAdd(x, y) ==
    IF IsNaN(x) \/ IsNaN(y) THEN NaN
    ELSE IF ~IsFinite(x) /\ ~IsFinite(y) THEN (IF x = y THEN x ELSE NaN)
    ELSE IF ~IsFinite(x) THEN x
    ELSE IF ~IsFinite(y) THEN y
    ELSE LET g == Gcd(x[2], y[2])
             l1 == y[2] \div g
             l2 == x[2] \div g
         IN  Norm(x[1] * l1 + y[1] * l2, x[2] * l1)

QSub(x, y) == QAdd(x, QNeg(y))

\* x * y; 0 * inf and anything with nan are nan
QMul(x, y) ==
    IF IsNaN(x) \/ IsNaN(y) THEN NaN
    ELSE IF ~IsFinite(x) \/ ~IsFinite(y)
         THEN (IF x[1] = 0 \/ y[1] = 0 THEN NaN
               ELSE <<Sign(x[1]) * Sign(y[1]), 0>>)
    ELSE LET g1 == Gcd(Abs(x[1]), y[2])
             g2 == Gcd(Abs(y[1]), x[2])
         IN  IF x[1] = 0 \/ y[1] = 0 THEN Zero
             ELSE <<(x[1] \div g1) * (y[1] \div g2), (x[2] \div g2) * (y[2] \div g1)>>

\* x / y as numpy divides float64: a zero divisor gives inf or nan, no exception
QDiv(x, y) ==
    IF IsNaN(x) \/ IsNaN(y) THEN NaN
    ELSE IF ~IsFinite(y) THEN (IF IsFinite(x) THEN Zero ELSE NaN)
    ELSE IF y[1] = 0 THEN (IF x[1] = 0 THEN NaN ELSE <<Sign(x[1]), 0>>)
    ELSE IF ~IsFinite(x) THEN <<Sign(x[1]) * Sign(y[1]), 0>>
    ELSE QMul(x, <<Sign(y[1]) * y[2], Abs(y[1])>>)

QSquare(x) == QMul(x, x)

\* x < y and x <= y on finite values
QLess(x, y) == QSub(x, y)[1] < 0

QLeq(x, y) == QSub(x, y)[1] <= 0

QAbs(x) == <<Abs(x[1]), x[2]>>

\* ceil of a finite value, an integer
Ceil(x) ==
    LET f == x[1] \div x[2]
    IN  IF x[1] % x[2] = 0 THEN f ELSE f + 1

(***************************************************************************)
(* np.exp and np.sqrt(2 * np.pi), to the resolution of the model.          *)
(* QExp computes e^q in fixed point: e^(q/64) by its Taylor polynomial,    *)
(* then six squarings; a result below the resolution underflows to 0, as   *)
(* np.exp does below the smallest float64.                                 *)
(***************************************************************************)
ExpOne == 16384

ExpHalvings == 6

ExpOut == 64

ExpCut == 32

RECURSIVE SquareTimes(_, _)
SquareTimes(v, k) ==
    IF k = 0 THEN v ELSE SquareTimes((v * v) \div ExpOne, k - 1)

\* ExpOne * e^(-n/d), for 0 <= n/d < ExpCut
ExpFix(n, d) ==
    LET u  == (n * (ExpOne \div (2 ^ ExpHalvings))) \div d
        u2 == (u * u) \div ExpOne
        u3 == (u2 * u) \div ExpOne
        v0 == ExpOne - u + (u2 \div 2) - (u3 \div 6)
    IN  SquareTimes(v0, ExpHalvings)

QExp(q) ==
    IF IsNaN(q) THEN NaN
    ELSE IF q = PInf THEN PInf
    ELSE IF q = NInf THEN Zero
    ELSE IF q[1] >= ExpCut * q[2] THEN PInf
    ELSE IF -q[1] >= ExpCut * q[2] THEN Zero
    ELSE IF q[1] > 0 THEN <<ExpOne, ExpFix(q[1], q[2])>>
    ELSE Norm(ExpFix(-q[1], q[2]) \div (ExpOne \div ExpOut), ExpOut)

Sqrt2Pi == <<5, 2>>

(***************************************************************************)
(* The module-level parameters (lines 7-13) and the state of the calls.    *)
(***************************************************************************)
VARIABLES
    L, EI, P, a, spread, dx, N,          \* module-level parameters
    pc,                                   \* where the caller is
    log,                                  \* how each solver call so far has ended
    rk4_x_vals, rk4_Y, rk4_y_deflections, rk4_i,    \* locals of beam_deflection_rk4
    cd_x_vals, cd_dx, cd_A, cd_b, cd_i,   \* locals of beam_deflection_central_difference
    x_rk4, y_rk4, x_cdf, y_cdf            \* the curves the caller holds (<<>>: none yet)

params == <<L, EI, P, a, spread, dx, N>>

rk4_locals == <<rk4_x_vals, rk4_Y, rk4_y_deflections, rk4_i>>

cd_locals == <<cd_x_vals, cd_dx, cd_A, cd_b, cd_i>>

results == <<x_rk4, y_rk4, x_cdf, y_cdf>>

vars == <<params, pc, log, rk4_locals, cd_locals, results>>

\* bounds of the model
MaxL == 2

MaxN == 6

MaxCalls == 3

LSet == {FromInt(l) : l \in 1..MaxL}

DxSet == {<<1, 2>>, <<3, 4>>}

ASet == {One}

SpreadSet == {<<-1, 2>>, Zero, <<1, 2>>}

PSet == {FromInt(-1), Zero, Two}

ScenarioPSet == {One, Two}

ScenarioEISet == {One, Two}

EISet == {Two}

NSet == (-1)..MaxN

(***************************************************************************)
(* gaussian_load (lines 18-19); P is the module-level P.                   *)
(***************************************************************************)
\* the load with the factor P left out
gaussian_load_without_P(x, a_, spread_) ==
    QDiv(QExp(QDiv(QNeg(QSquare(QSub(x, a_))), QMul(Two, QSquare(spread_)))),
         QMul(spread_, Sqrt2Pi))

gaussian_load(x, a_, spread_) ==
    QDiv(QMul(P, QExp(QDiv(QNeg(QSquare(QSub(x, a_))),
                           QMul(Two, QSquare(spread_))))),
         QMul(spread_, Sqrt2Pi))

(***************************************************************************)
(* beam_deflection_rk4 (lines 24-50).                                      *)
(***************************************************************************)
VAdd(U, V) == [j \in 1..4 |-> QAdd(U[j], V[j])]

VScale(c, V) == [j \in 1..4 |-> QMul(c, V[j])]

VDiv(V, c) == [j \in 1..4 |-> QDiv(V[j], c)]

system_of_odes(x, Y) ==
    LET w == gaussian_load(x, a, spread)
    IN  <<Y[2], Y[3], Y[4], QDiv(w, EI)>>

rk4_step(x, Y, h) ==
    LET k1 == system_of_odes(x, Y)
        k2 == system_of_odes(QAdd(x, QDiv(h, Two)), VAdd(Y, VDiv(VScale(h, k1), Two)))
        k3 == system_of_odes(QAdd(x, QDiv(h, Two)), VAdd(Y, VDiv(VScale(h, k2), Two)))
        k4 == system_of_odes(QAdd(x, h), VAdd(Y, VScale(h, k3)))
    IN  VAdd(Y, VScale(QDiv(h, Six),
                       VAdd(VAdd(k1, VScale(Two, k2)), VAdd(VScale(Two, k3), k4))))

\* np.arange(start, stop, step): ceil((stop - start) / step) values start + k * step
ArangeLen(start, stop, step) ==
    LET n == Ceil(QDiv(QSub(stop, start), step))
    IN  IF n < 0 THEN 0 ELSE n

Arange(start, stop, step) ==
    [k \in 1..ArangeLen(start, stop, step) |-> QAdd(start, QMul(FromInt(k - 1), step))]

Y0 == <<Zero, Zero, Zero, Zero>>

\* the loop body with the two statements swapped: advance, then record
RK4Body_advance_first(x, Y, ys) ==
    LET Y1 == rk4_step(x, Y, dx)
    IN  [ys |-> Append(ys, Y1[1]), Y |-> Y1]

\* one pass of the loop body (lines 47-48): record, then advance
RK4Body(x, Y, ys) ==
    [ys |-> Append(ys, Y[1]), Y |-> rk4_step(x, Y, dx)]

\* lines 42-44
RK4Call ==
    /\ pc = "main"
    /\ Len(log) < MaxCalls
    /\ rk4_x_vals' = Arange(Zero, QAdd(L, dx), dx)
    /\ rk4_Y' = Y0
    /\ rk4_y_deflections' = <<>>
    /\ rk4_i' = 0
    /\ pc' = "rk4_loop"
    /\ UNCHANGED <<params, log, cd_locals, results>>

\* lines 46-48, one iteration
RK4Iter ==
    /\ pc = "rk4_loop"
    /\ rk4_i < Len(rk4_x_vals)
    /\ LET r == RK4Body(rk4_x_vals[rk4_i + 1], rk4_Y, rk4_y_deflections)
       IN  /\ rk4_y_deflections' = r.ys
           /\ rk4_Y' = r.Y
    /\ rk4_i' = rk4_i + 1
    /\ UNCHANGED <<params, pc, log, rk4_x_vals, cd_locals, results>>

\* line 50, and line 91 of main
RK4Return ==
    /\ pc = "rk4_loop"
    /\ rk4_i = Len(rk4_x_vals)
    /\ x_rk4' = rk4_x_vals
    /\ y_rk4' = rk4_y_deflections
    /\ log' = Append(log, "rk4")
    /\ rk4_x_vals' = <<>>
    /\ rk4_Y' = Y0
    /\ rk4_y_deflections' = <<>>
    /\ rk4_i' = 0
    /\ pc' = "main"
    /\ UNCHANGED <<params, cd_locals, x_cdf, y_cdf>>

(***************************************************************************)
(* beam_deflection_central_difference (lines 55-78).  Arrays are indexed   *)
(* from 0 as in the source; a negative index counts from the end.          *)
(***************************************************************************)
CDSpread == <<1, 10>>

\* np.linspace(start, stop, num), num >= 0
Linspace(start, stop, num) ==
    [i \in 0..(num - 1) |->
        IF num = 1 THEN start
        ELSE QAdd(start, QMul(FromInt(i), QDiv(QSub(stop, start), FromInt(num - 1))))]

Idx(i, n) == IF i < 0 THEN n + i ELSE i

ZerosMatrix(n) == [r \in 0..(n - 1) |-> [c \in 0..(n - 1) |-> 0]]

SetEntry(A, r, c, v) == [A EXCEPT ![r][c] = v]

\* the stencil with the sign of one off-diagonal coefficient lost
FillRow_wrong_sign(A, i) ==
    SetEntry(SetEntry(SetEntry(SetEntry(SetEntry(A, i, i - 2, 1), i, i - 1, -4),
                               i, i, 6), i, i + 1, 4), i, i + 2, 1)

\* lines 66-70: the stencil of interior row i
FillRow(A, i) ==
    SetEntry(SetEntry(SetEntry(SetEntry(SetEntry(A, i, i - 2, 1), i, i - 1, -4),
                               i, i, 6), i, i + 1, -4), i, i + 2, 1)

\* line 73 with the last of its four targets left out
BoundaryA_last_kept(A, n) ==
    SetEntry(SetEntry(SetEntry(A, 0, 0, 1), 1, 1, 1), Idx(-2, n), Idx(-2, n), 1)

\* lines 73-74
BoundaryA(A, n) ==
    SetEntry(SetEntry(SetEntry(SetEntry(A, 0, 0, 1), 1, 1, 1),
                      Idx(-2, n), Idx(-2, n), 1), Idx(-1, n), Idx(-1, n), 1)

BoundaryB(b, n) ==
    [b EXCEPT ![0] = Zero, ![1] = Zero, ![Idx(-2, n)] = Zero, ![Idx(-1, n)] = Zero]

\* np.linalg.solve(A, b): LU with partial pivoting, then substitution; a zero
\* pivot is LinAlgError("Singular matrix")
Augmented(A, b, n) ==
    [r \in 0..(n - 1) |-> [c \in 0..n |-> IF c = n THEN b[r] ELSE FromInt(A[r][c])]]

PivotRow(M, k, n) ==
    CHOOSE r \in k..(n - 1) :
        \A s \in k..(n - 1) :
            \/ QLess(QAbs(M[s][k]), QAbs(M[r][k]))
            \/ (QAbs(M[s][k]) = QAbs(M[r][k]) /\ r <= s)

SwapRows(M, i, j) == [M EXCEPT ![i] = M[j], ![j] = M[i]]

ReduceBelow(M, k, n) ==
    [r \in 0..(n - 1) |->
        IF r <= k \/ M[r][k] = Zero THEN M[r]
        ELSE LET f == QDiv(M[r][k], M[k][k])
             IN  [c \in 0..n |-> QSub(M[r][c], QMul(f, M[k][c]))]]

RECURSIVE Eliminate(_, _, _)
Eliminate(M, k, n) ==
    IF k = n THEN [singular |-> FALSE, M |-> M]
    ELSE LET p == PivotRow(M, k, n)
         IN  IF M[p][k] = Zero THEN [singular |-> TRUE, M |-> M]
             ELSE Eliminate(ReduceBelow(SwapRows(M, k, p), k, n), k + 1, n)

RECURSIVE RowTail(_, _, _, _)
RowTail(M, y, i, j) ==
    IF j < i + 1 THEN Zero
    ELSE QAdd(QMul(M[i][j], y[j]), RowTail(M, y, i, j - 1))

RECURSIVE BackSubstitute(_, _, _, _)
BackSubstitute(M, y, i, n) ==
    IF i < 0 THEN y
    ELSE BackSubstitute(M,
            [y EXCEPT ![i] = QDiv(QSub(M[i][n], RowTail(M, y, i, n - 1)), M[i][i])],
            i - 1, n)

Solve(A, b, n) ==
    LET e == Eliminate(Augmented(A, b, n), 0, n)
    IN  IF e.singular THEN [err |-> "LinAlgError", y |-> <<>>]
        ELSE [err |-> "none",
              y |-> BackSubstitute(e.M, [i \in 0..(n - 1) |-> Zero], n - 1, n)]

QPow4(x) == QSquare(QSquare(x))

ResetCD ==
    /\ cd_x_vals' = <<>>
    /\ cd_dx' = Zero
    /\ cd_A' = <<>>
    /\ cd_b' = <<>>
    /\ cd_i' = 0

\* an exception leaves the call; the caller keeps what it held
CDRaise(e) ==
    /\ log' = Append(log, e)
    /\ pc' = "main"
    /\ ResetCD
    /\ UNCHANGED <<params, rk4_locals, results>>

\* lines 56-62 with line 57 assigning the module-level dx ("global dx")
CDCall_global_dx ==
    /\ pc = "main"
    /\ Len(log) < MaxCalls
    /\ IF N < 0 THEN CDRaise("ValueError")
       ELSE IF N - 1 = 0 THEN CDRaise("ZeroDivisionError")
       ELSE LET xs == Linspace(Zero, L, N)
                h  == QDiv(L, FromInt(N - 1))
            IN  /\ cd_x_vals' = xs
                /\ cd_dx' = h
                /\ dx' = h
                /\ cd_A' = ZerosMatrix(N)
                /\ cd_b' = [i \in 0..(N - 1) |->
                              QMul(QDiv(gaussian_load(xs[i], a, CDSpread), EI), QPow4(h))]
                /\ cd_i' = 2
                /\ pc' = "cd_fill"
                /\ UNCHANGED <<L, EI, P, a, spread, N, log, rk4_locals, results>>

\* lines 56-62
CDCall ==
    /\ pc = "main"
    /\ Len(log) < MaxCalls
    /\ IF N < 0 THEN CDRaise("ValueError")
       ELSE IF N - 1 = 0 THEN CDRaise("ZeroDivisionError")
       ELSE LET xs == Linspace(Zero, L, N)
                h  == QDiv(L, FromInt(N - 1))
            IN  /\ cd_x_vals' = xs
                /\ cd_dx' = h
                /\ cd_A' = ZerosMatrix(N)
                /\ cd_b' = [i \in 0..(N - 1) |->
                              QMul(QDiv(gaussian_load(xs[i], a, CDSpread), EI), QPow4(h))]
                /\ cd_i' = 2
                /\ pc' = "cd_fill"
                /\ UNCHANGED <<params, log, rk4_locals, results>>

\* lines 65-70, one iteration
CDFill ==
    /\ pc = "cd_fill"
    /\ cd_i < N - 2
    /\ cd_A' = FillRow(cd_A, cd_i)
    /\ cd_i' = cd_i + 1
    /\ UNCHANGED <<params, pc, log, rk4_locals, cd_x_vals, cd_dx, cd_b, results>>

\* lines 73-74
CDBoundary ==
    /\ pc = "cd_fill"
    /\ cd_i >= N - 2
    /\ IF N = 0 THEN CDRaise("IndexError")
       ELSE /\ cd_A' = BoundaryA(cd_A, N)
            /\ cd_b' = BoundaryB(cd_b, N)
            /\ pc' = "cd_solve"
            /\ UNCHANGED <<params, log, rk4_locals, cd_x_vals, cd_dx, cd_i, results>>

\* line 78, and line 95 of main, with s what line 77 gave
CDReturn(s) ==
    IF s.err # "none" THEN CDRaise(s.err)
    ELSE /\ x_cdf' = cd_x_vals
         /\ y_cdf' = s.y
         /\ log' = Append(log, "cd")
         /\ pc' = "main"
         /\ ResetCD
         /\ UNCHANGED <<params, rk4_locals, x_rk4, y_rk4>>

\* lines 77-78
CDSolve ==
    /\ pc = "cd_solve"
    /\ CDReturn(Solve(cd_A, cd_b, N))

Init ==
    /\ L \in LSet
    /\ EI \in EISet
    /\ P \in PSet
    /\ a \in ASet
    /\ spread \in SpreadSet
    /\ dx \in DxSet
    /\ N \in NSet
    /\ pc = "main"
    /\ log = <<>>
    /\ rk4_x_vals = <<>>
    /\ rk4_Y = Y0
    /\ rk4_y_deflections = <<>>
    /\ rk4_i = 0
    /\ cd_x_vals = <<>>
    /\ cd_dx = Zero
    /\ cd_A = <<>>
    /\ cd_b = <<>>
    /\ cd_i = 0
    /\ x_rk4 = <<>>
    /\ y_rk4 = <<>>
    /\ x_cdf = <<>>
    /\ y_cdf = <<>>

Next ==
    \/ RK4Call
    \/ RK4Iter
    \/ RK4Return
    \/ CDCall
    \/ CDFill
    \/ CDBoundary
    \/ CDSolve

Spec == Init /\ [][Next]_vars

(***************************************************************************)
(* Properties of the two solvers under Spec.                               *)
(***************************************************************************)
Ended(outcome) == \E k \in 1..Len(log) : log[k] = outcome

CDErrors == {"ValueError", "ZeroDivisionError", "IndexError", "LinAlgError"}

\* the largest magnitude of a curve of finite values
PeakOf(curve) ==
    CHOOSE m \in {QAbs(curve[i]) : i \in DOMAIN curve} :
        \A i \in DOMAIN curve : QLeq(QAbs(curve[i]), m)

Tolerance == <<1, 100>>

\* v is zero within the tolerance, relative to the peak of its curve
NearZero(v, curve) == QLeq(QAbs(v), QMul(Tolerance, PeakOf(curve)))

\* C1: for spread > 0 and N >= 5 the first and the last deflection of the curve
\* returned by each solver is zero within tolerance.
C1_EndsAreZero ==
    /\ (QLess(Zero, spread) /\ y_rk4 # <<>>) =>
          /\ NearZero(y_rk4[1], y_rk4)
          /\ NearZero(y_rk4[Len(y_rk4)], y_rk4)
    /\ (N >= 5 /\ Ended("cd")) =>
          /\ NearZero(y_cdf[0], y_cdf)
          /\ NearZero(y_cdf[N - 1], y_cdf)

\* C2: with a zero load (P = 0 and a spread for which gaussian_load is 0
\* everywhere) every deflection either solver returns is 0.
C2_ZeroLoadZeroCurve ==
    /\ (P = Zero /\ QLess(Zero, spread) /\ y_rk4 # <<>>) =>
          \A k \in 1..Len(y_rk4) : y_rk4[k] = Zero
    /\ (P = Zero /\ N >= 5 /\ Ended("cd")) =>
          \A i \in 0..(N - 1) : y_cdf[i] = Zero

C2_Witness ==
    /\ P = Zero
    /\ QLess(Zero, spread)
    /\ N >= 5
    /\ Ended("cd")
    /\ Len(y_rk4) >= 3
    /\ \A i \in 0..(N - 1) : y_cdf[i] = Zero

\* C3: for N < 5 a call of the central-difference solver ends in an error and
\* never returns a curve.
C3_SmallGridFails ==
    N < 5 => ~Ended("cd")

\* C4: with spread <= 0 the evaluation of gaussian_load fails, so the RK4 march,
\* which evaluates it in every step, completes no step and returns no curve.
C4_BadSpreadFails ==
    QLeq(spread, Zero) => (rk4_i = 0 /\ y_rk4 = <<>>)

BoundaryRows == {0, 1, N - 2, N - 1}

\* In exact arithmetic the four boundary rows are identity rows with a zero
\* right-hand side and the solution is 0 at all four of them.
BoundaryRowsForcedExactly ==
    /\ (pc = "cd_solve" /\ N >= 5) =>
          \A r \in BoundaryRows :
              /\ \A c \in 0..(N - 1) : cd_A[r][c] = (IF c = r THEN 1 ELSE 0)
              /\ cd_b[r] = Zero
    /\ (N >= 5 /\ Ended("cd")) =>
          \A r \in BoundaryRows : y_cdf[r] = Zero

\* C7: for N >= 5 every interior row i (2 <= i <= N-3) of A holds exactly
\* 1, -4, 6, -4, 1 at columns i-2..i+2 and 0 elsewhere, five nonzero entries
\* that sum to 0, once it is filled and still after the boundary rows are set.
Stencil(k) ==
    IF k = 0 THEN 6 ELSE IF Abs(k) = 1 THEN -4 ELSE IF Abs(k) = 2 THEN 1 ELSE 0

RECURSIVE RowSum(_, _)
RowSum(row, c) == IF c < 0 THEN 0 ELSE row[c] + RowSum(row, c - 1)

IsStencilRow(A, i) ==
    /\ \A c \in 0..(N - 1) : A[i][c] = Stencil(c - i)
    /\ Cardinality({c \in 0..(N - 1) : A[i][c] # 0}) = 5
    /\ RowSum(A[i], N - 1) = 0

C7_InteriorRowsStencil ==
    /\ (pc = "cd_fill" /\ N >= 5) => \A i \in 2..(cd_i - 1) : IsStencilRow(cd_A, i)
    /\ (pc = "cd_solve" /\ N >= 5) => \A i \in 2..(N - 3) : IsStencilRow(cd_A, i)

C7_Witness ==
    /\ pc = "cd_solve"
    /\ N >= 6
    /\ \A i \in 2..(N - 3) : IsStencilRow(cd_A, i)
    /\ cd_A[N - 2][N - 2] = 1

\* C9: no step of either solver changes a module-level parameter, and a curve a
\* solver has returned is returned again unchanged by every later call of it,
\* whatever the other solver did in between.
C9_SolversIndependent ==
    [][/\ params' = params
       /\ (y_rk4 # <<>> => (y_rk4' = y_rk4 /\ x_rk4' = x_rk4))
       /\ (Ended("cd") => (y_cdf' = y_cdf /\ x_cdf' = x_cdf))]_vars

C9_Witness ==
    /\ Len(log) = 3
    /\ log[1] = "rk4"
    /\ log[2] \in CDErrors \cup {"cd"}
    /\ log[3] = "rk4"

\* C10: in the march the deflection is recorded before the state is advanced:
\* the k-th recorded value is the y of the state after k RK4 steps from
\* (0,0,0,0), and the state itself is one step ahead of the last record, also
\* after the last sample.
RECURSIVE Marched(_)
Marched(k) ==
    IF k = 0 THEN <<Y0>>
    ELSE LET s == Marched(k - 1)
         IN  Append(s, rk4_step(QMul(FromInt(k - 1), dx), s[k], dx))

C10_RecordBeforeAdvance ==
    pc = "rk4_loop" =>
        LET s == Marched(rk4_i)
        IN  /\ Len(rk4_y_deflections) = rk4_i
            /\ \A k \in 1..rk4_i : rk4_y_deflections[k] = s[k][1]
            /\ rk4_Y = s[rk4_i + 1]
            /\ rk4_i >= 1 => rk4_y_deflections[1] = Zero

C10_Witness ==
    /\ pc = "rk4_loop"
    /\ rk4_i = Len(rk4_x_vals)
    /\ rk4_i >= 3
    /\ rk4_Y[1] # rk4_y_deflections[rk4_i]
    /\ IsFinite(rk4_Y[1])

(***************************************************************************)
(* The scenario of the module's constants (lines 7-13), RK4 march only.    *)
(***************************************************************************)
InitScenario ==
    /\ L = FromInt(10)
    /\ EI \in ScenarioEISet
    /\ P \in ScenarioPSet
    /\ a = FromInt(5)
    /\ spread = <<1, 20>>
    /\ dx = <<1, 10>>
    /\ N = 101
    /\ pc = "main"
    /\ log = <<>>
    /\ rk4_x_vals = <<>>
    /\ rk4_Y = Y0
    /\ rk4_y_deflections = <<>>
    /\ rk4_i = 0
    /\ cd_x_vals = <<>>
    /\ cd_dx = Zero
    /\ cd_A = <<>>
    /\ cd_b = <<>>
    /\ cd_i = 0
    /\ x_rk4 = <<>>
    /\ y_rk4 = <<>>
    /\ x_cdf = <<>>
    /\ y_cdf = <<>>

NextScenario ==
    \/ RK4Call
    \/ RK4Iter
    \/ RK4Return

SpecScenario == InitScenario /\ [][NextScenario]_vars

\* index of the first sample of largest magnitude
ArgPeak(curve) ==
    CHOOSE k \in 1..Len(curve) :
        /\ \A j \in 1..Len(curve) : QLeq(QAbs(curve[j]), QAbs(curve[k]))
        /\ \A j \in 1..(k - 1) : QLess(QAbs(curve[j]), QAbs(curve[k]))

\* C8: for a positive load centred at a the sample of largest deflection
\* magnitude of the returned RK4 curve lies nearer to x = a than to x = L.
C8_PeakNearLoad ==
    (QLess(Zero, P) /\ y_rk4 # <<>>) =>
        LET xp == x_rk4[ArgPeak(y_rk4)]
        IN  QLess(QAbs(QSub(xp, a)), QAbs(QSub(xp, L)))

(***************************************************************************)
(* binary64.  A natural number is the sequence of its bits, lowest first,  *)
(* with no zero at the top (<<>> is 0); a positive float64 is <<m, e>>,    *)
(* the value m * 2^e with m of exactly MantissaBits bits.  Operations      *)
(* round to nearest, ties to even, as the hardware does.                   *)
(***************************************************************************)
MantissaBits == 53

BTrim(x) ==
    LET ones == {i \in 1..Len(x) : x[i] = 1}
    IN  IF ones = {} THEN <<>>
        ELSE SubSeq(x, 1, CHOOSE i \in ones : \A j \in ones : j <= i)

Bit(x, i) == IF i >= 1 /\ i <= Len(x) THEN x[i] ELSE 0

RECURSIVE BFromInt(_)
BFromInt(i) == IF i = 0 THEN <<>> ELSE <<i % 2>> \o BFromInt(i \div 2)

RECURSIVE BToInt(_)
BToInt(x) == IF x = <<>> THEN 0 ELSE x[1] + 2 * BToInt(Tail(x))

\* bits lo..hi of x + y + c and the carry out of them (by halves)
RECURSIVE BAddRange(_, _, _, _, _)
BAddRange(x, y, lo, hi, c) ==
    IF lo = hi
    THEN LET t == Bit(x, lo) + Bit(y, lo) + c
         IN  [bits |-> <<t % 2>>, c |-> t \div 2]
    ELSE LET mid  == (lo + hi) \div 2
             low  == BAddRange(x, y, lo, mid, c)
             high == BAddRange(x, y, mid + 1, hi, low.c)
         IN  [bits |-> low.bits \o high.bits, c |-> high.c]

BAdd(x, y) ==
    LET n == IF Len(x) > Len(y) THEN Len(x) ELSE Len(y)
    IN  IF n = 0 THEN <<>>
        ELSE LET s == BAddRange(x, y, 1, n, 0)
             IN  IF s.c = 1 THEN Append(s.bits, 1) ELSE s.bits

\* bits lo..hi of x - y - c and the borrow out of them (by halves)
RECURSIVE BSubRange(_, _, _, _, _)
BSubRange(x, y, lo, hi, c) ==
    IF lo = hi
    THEN LET t == Bit(x, lo) - Bit(y, lo) - c
         IN  [bits |-> <<IF t < 0 THEN t + 2 ELSE t>>, c |-> IF t < 0 THEN 1 ELSE 0]
    ELSE LET mid  == (lo + hi) \div 2
             low  == BSubRange(x, y, lo, mid, c)
             high == BSubRange(x, y, mid + 1, hi, low.c)
         IN  [bits |-> low.bits \o high.bits, c |-> high.c]

\* x - y for x >= y
BSub(x, y) == IF x = <<>> THEN x ELSE BTrim(BSubRange(x, y, 1, Len(x), 0).bits)

BLess(x, y) ==
    \/ Len(x) < Len(y)
    \/ /\ Len(x) = Len(y)
       /\ \E i \in 1..Len(x) :
             /\ x[i] < y[i]
             /\ \A j \in (i + 1)..Len(x) : x[j] = y[j]

BShl(x, k) == IF x = <<>> \/ k = 0 THEN x ELSE [i \in 1..k |-> 0] \o x

BShr(x, k) == IF k >= Len(x) THEN <<>> ELSE SubSeq(x, k + 1, Len(x))

\* some bit among the k lowest is set
BLowBits(x, k) == \E i \in 1..k : Bit(x, i) = 1

Reverse(x) == [i \in 1..Len(x) |-> x[Len(x) + 1 - i]]

\* long division of bits hi down to lo of x by y, r the remainder so far:
\* the quotient bits hi..lo, highest first, and the remainder after them
\* (by halves, the upper half first)
RECURSIVE BDivRange(_, _, _, _, _)
BDivRange(x, y, hi, lo, r) ==
    IF hi = lo
    THEN LET r1 == BTrim(<<x[hi]>> \o r)
         IN  IF BLess(r1, y) THEN [q |-> <<0>>, r |-> r1]
             ELSE [q |-> <<1>>, r |-> BSub(r1, y)]
    ELSE LET mid  == (hi + lo + 1) \div 2
             high == BDivRange(x, y, hi, mid, r)
             low  == BDivRange(x, y, mid - 1, lo, high.r)
         IN  [q |-> high.q \o low.q, r |-> low.r]

\* the quotient as a number, lowest bit first
LowFirst(d) == [q |-> BTrim(Reverse(d.q)), r |-> d.r]

BDivMod(x, y) ==
    IF x = <<>> THEN [q |-> <<>>, r |-> <<>>]
    ELSE LowFirst(BDivRange(x, y, Len(x), 1, <<>>))

\* the sum of x * 2^(i-1) over the set bits i of y among lo..hi (by halves)
RECURSIVE BMulRange(_, _, _, _)
BMulRange(x, y, lo, hi) ==
    IF lo = hi THEN (IF y[lo] = 1 THEN BShl(x, lo - 1) ELSE <<>>)
    ELSE LET mid == (lo + hi) \div 2
         IN  BAdd(BMulRange(x, y, lo, mid), BMulRange(x, y, mid + 1, hi))

BMul(x, y) == IF x = <<>> \/ y = <<>> THEN <<>> ELSE BMulRange(x, y, 1, Len(y))

\* the float64 nearest to m * 2^e, where a set sticky says the exact value is
\* a little above m * 2^e
Renormalise(kept, e) ==
    IF Len(kept) > MantissaBits THEN <<BShr(kept, 1), e + 1>> ELSE <<kept, e>>

\* m with its k lowest bits rounded away
RoundAway(m, k, e, sticky) ==
    Renormalise(IF m[k] = 1 /\ (sticky \/ BLowBits(m, k - 1) \/ m[k + 1] = 1)
                THEN BAdd(BShr(m, k), <<1>>)
                ELSE BShr(m, k),
                e + k)

F64Round(m, e, sticky) ==
    IF m = <<>> THEN <<m, 0>>
    ELSE IF Len(m) <= MantissaBits
    THEN <<BShl(m, MantissaBits - Len(m)), e - (MantissaBits - Len(m))>>
    ELSE RoundAway(m, Len(m) - MantissaBits, e, sticky)

F64Zero == <<<<>>, 0>>

\* the integer mantissa of x at exponent e, for e no larger than x's own
F64At(x, e) == BShl(x[1], x[2] - e)

MinExp(x, y) ==
    IF x[1] = <<>> THEN y[2] ELSE IF y[1] = <<>> THEN x[2]
    ELSE IF x[2] < y[2] THEN x[2] ELSE y[2]

F64Add(x, y) ==
    LET e == MinExp(x, y)
    IN  F64Round(BAdd(F64At(x, e), F64At(y, e)), e, FALSE)

\* x - y for x >= y
F64Sub(x, y) ==
    LET e == MinExp(x, y)
    IN  F64Round(BSub(F64At(x, e), F64At(y, e)), e, FALSE)

F64Less(x, y) ==
    LET e == MinExp(x, y)
    IN  BLess(F64At(x, e), F64At(y, e))

DivShift == 56

\* the float64 nearest to a quotient d.q * 2^e with remainder d.r
RoundQuotient(d, e) == F64Round(d.q, e, d.r # <<>>)

F64Div(x, y) == RoundQuotient(BDivMod(BShl(x[1], DivShift), y[1]), x[2] - y[2] - DivShift)

\* k * x for an integer k >= 0
F64MulInt(k, x) == F64Round(BMul(x[1], BFromInt(k)), x[2], FALSE)

\* math.ceil of x >= 0, an integer
F64Ceil(x) ==
    IF x[1] = <<>> THEN 0
    ELSE IF x[2] >= 0 THEN BToInt(BShl(x[1], x[2]))
    ELSE BToInt(BShr(x[1], -x[2])) + (IF BLowBits(x[1], -x[2]) THEN 1 ELSE 0)

\* the float64 of the decimal literal n/d (n >= 1, d < 2^8), correctly rounded
LiteralShift == 64

F64Literal(n, d) ==
    RoundQuotient(BDivMod(BShl(BFromInt(n), LiteralShift), BFromInt(d)), -LiteralShift)

\* np.arange(0, stop, step) on float64: ceil((stop - 0) / step) values, the
\* k-th being 0 + k * (step - 0)
F64ArangeLen(stop, step) == F64Ceil(F64Div(F64Sub(stop, F64Zero), step))

F64Arange(stop, step) ==
    LET delta == F64Sub(F64Add(F64Zero, step), F64Zero)
    IN  [k \in 1..F64ArangeLen(stop, step) |->
            F64Add(F64Zero, F64MulInt(k - 1, delta))]

(***************************************************************************)
(* The grid of the RK4 march in binary64 (lines 42-50).  The load is       *)
(* switched off (P = 0): every float64 of the state vector is then exactly *)
(* 0 in every step, and what is left of the march is its grid arithmetic.  *)
(* L and dx hold float64 values here, the values of decimal literals.      *)
(***************************************************************************)
GridLSet == {<<1, 5>>, <<1, 1>>, <<10, 1>>}

GridDxSet == {<<1, 10>>, <<1, 4>>}

InitGrid ==
    /\ L \in {F64Literal(l[1], l[2]) : l \in GridLSet}
    /\ dx \in {F64Literal(h[1], h[2]) : h \in GridDxSet}
    /\ EI = Two
    /\ P = Zero
    /\ a = Zero
    /\ spread = <<1, 20>>
    /\ N = 101
    /\ pc = "main"
    /\ log = <<>>
    /\ rk4_x_vals = <<>>
    /\ rk4_Y = Y0
    /\ rk4_y_deflections = <<>>
    /\ rk4_i = 0
    /\ cd_x_vals = <<>>
    /\ cd_dx = Zero
    /\ cd_A = <<>>
    /\ cd_b = <<>>
    /\ cd_i = 0
    /\ x_rk4 = <<>>
    /\ y_rk4 = <<>>
    /\ x_cdf = <<>>
    /\ y_cdf = <<>>

\* lines 42-44
GridCall ==
    /\ pc = "main"
    /\ Len(log) < MaxCalls
    /\ rk4_x_vals' = F64Arange(F64Add(L, dx), dx)
    /\ rk4_Y' = Y0
    /\ rk4_y_deflections' = <<>>
    /\ rk4_i' = 0
    /\ pc' = "rk4_loop"
    /\ UNCHANGED <<params, log, cd_locals, results>>

\* lines 46-48, one iteration: with P = 0 every k of rk4_step is 0 and Y stays Y0
GridIter ==
    /\ pc = "rk4_loop"
    /\ rk4_i < Len(rk4_x_vals)
    /\ rk4_y_deflections' = Append(rk4_y_deflections, rk4_Y[1])
    /\ rk4_Y' = rk4_Y
    /\ rk4_i' = rk4_i + 1
    /\ UNCHANGED <<params, pc, log, rk4_x_vals, cd_locals, results>>

NextGrid ==
    \/ GridCall
    \/ GridIter
    \/ RK4Return

SpecGrid == InitGrid /\ [][NextGrid]_vars

\* ceil(x / y) of the exact values of two float64
ExactCeilRatio(x, y) ==
    LET e == MinExp(x, y)
        d == BDivMod(F64At(x, e), F64At(y, e))
    IN  BToInt(d.q) + (IF d.r # <<>> THEN 1 ELSE 0)

\* x < y + z of the exact values
ExactLessSum(x, y, z) ==
    LET e == MinExp(x, <<y[1], MinExp(y, z)>>)
    IN  BLess(F64At(x, e), BAdd(F64At(y, e), F64At(z, e)))

\* C5: the march ends after recording exactly ceil(L/dx) + 1 samples, at
\* strictly increasing positions from 0, the last less than dx beyond L.
C5_SampleCount ==
    (pc = "rk4_loop" /\ rk4_i = Len(rk4_x_vals)) =>
        /\ Len(rk4_y_deflections) = ExactCeilRatio(L, dx) + 1
        /\ rk4_x_vals[1] = F64Zero
        /\ \A k \in 1..(Len(rk4_x_vals) - 1) : F64Less(rk4_x_vals[k], rk4_x_vals[k + 1])
        /\ ExactLessSum(rk4_x_vals[Len(rk4_x_vals)], L, dx)

(***************************************************************************)
(* Signed binary64: <<s, m, e>> is s * m * 2^e with s in {1, -1} and m of  *)
(* MantissaBits bits; 0.0 and -0.0, which compare equal, are both F0.      *)
(* Exponents are unbounded here (no overflow, no subnormals).              *)
(***************************************************************************)
F0 == <<1, <<>>, 0>>

\* the positive float64 v with the sign s
Signed(s, v) == IF v[1] = <<>> THEN F0 ELSE <<s, v[1], v[2]>>

F1 == Signed(1, F64Round(<<1>>, 0, FALSE))

\* the float64 nearest to s * m * 2^e (sticky as in F64Round)
SRound(s, m, e, sticky) == Signed(s, F64Round(m, e, sticky))

SFromInt(i) == SRound(Sign(i), BFromInt(Abs(i)), 0, FALSE)

SLiteral(n, d) == Signed(1, F64Literal(n, d))

SNeg(x) == IF x = F0 THEN x ELSE <<-x[1], x[2], x[3]>>

\* the float64 nearest to the exact s1 * m1 * 2^e1 + s2 * m2 * 2^e2
\* the float64 nearest to s1 * x * 2^e + s2 * y * 2^e
SumAt(s1, x, s2, y, e) ==
    SRound(IF s1 = s2 \/ ~BLess(x, y) THEN s1 ELSE s2,
           IF s1 = s2 THEN BAdd(x, y)
           ELSE IF BLess(x, y) THEN BSub(y, x) ELSE BSub(x, y),
           e, FALSE)

Min(i, j) == IF i < j THEN i ELSE j

SumRound(s1, m1, e1, s2, m2, e2) ==
    IF m1 = <<>> THEN SRound(s2, m2, e2, FALSE)
    ELSE IF m2 = <<>> THEN SRound(s1, m1, e1, FALSE)
    ELSE SumAt(s1, BShl(m1, e1 - Min(e1, e2)), s2, BShl(m2, e2 - Min(e1, e2)), Min(e1, e2))

SAdd(x, y) == SumRound(x[1], x[2], x[3], y[1], y[2], y[3])

SSub(x, y) == SAdd(x, SNeg(y))

SMul(x, y) == SRound(x[1] * y[1], BMul(x[2], y[2]), x[3] + y[3], FALSE)

\* x / y for y # 0
SDiv(x, y) ==
    IF x = F0 THEN F0
    ELSE Signed(x[1] * y[1], F64Div(<<x[2], x[3]>>, <<y[2], y[3]>>))

\* c - x * y rounded once (a fused multiply-add)
SFms(c, x, y) ==
    SumRound(c[1], c[2], c[3], -(x[1] * y[1]), BMul(x[2], y[2]), x[3] + y[3])

\* |x| < |y|
SAbsLess(x, y) ==
    IF y = F0 THEN FALSE
    ELSE IF x = F0 THEN TRUE
    ELSE F64Less(<<x[2], x[3]>>, <<y[2], y[3]>>)

\* |x| <= |y| * 2^k
SAbsWithin(x, y, k) == ~SAbsLess(<<y[1], y[2], y[3] + k>>, x) \/ x = F0

\* the bits of a number written in hexadecimal digits, highest digit first
RECURSIVE HexDigits(_)
HexDigits(h) ==
    IF h = <<>> THEN <<>>
    ELSE HexDigits(Tail(h)) \o [i \in 1..4 |-> (h[1] \div (2 ^ (i - 1))) % 2]

HexBits(h) == BTrim(HexDigits(h))

(***************************************************************************)
(* beam_deflection_central_difference in binary64 (lines 55-78), on the    *)
(* five-point grid with the load centred on its middle point: the result   *)
(* of np.linalg.solve depends on the rounding of its elimination.  L, EI,  *)
(* P, a and the locals of the call hold signed binary64 values here.       *)
(***************************************************************************)
\* np.sqrt(2 * np.pi) = 0x1.40d931ff62705p+1
Sqrt2PiF64 == <<1, HexBits(<<1, 4, 0, 13, 9, 3, 1, 15, 15, 6, 2, 7, 0, 5>>), -51>>

\* a float64 this model does not compute; nothing may read it
NotComputed == <<>>

\* lines 18-19 where x = a: the exponent is -0.0 and np.exp(-0.0) is 1.0.  At
\* any other x the value of np.exp is left open.
F64gaussian_load(x, a_, spread_) ==
    IF SSub(x, a_) = F0
    THEN SDiv(SMul(P, F1), SMul(spread_, Sqrt2PiF64))
    ELSE NotComputed

\* np.linspace(0, stop, num), num >= 2: i * step + 0 with step = (stop - 0) / (num - 1)
F64Steps(stop, num, step) ==
    [i \in 0..(num - 1) |->
        IF i = num - 1 THEN stop ELSE SAdd(SMul(SFromInt(i), step), F0)]

F64Linspace(stop, num) == F64Steps(stop, num, SDiv(SSub(stop, F0), SFromInt(num - 1)))

\* dx**4 for a dx whose fourth power is a float64
F64Pow4(x) == SMul(SMul(x, x), SMul(x, x))

\* line 59, one entry
F64Rhs(w, h) == IF w = NotComputed THEN NotComputed ELSE SMul(SDiv(w, EI), F64Pow4(h))

F64BoundaryB(b, n) ==
    [b EXCEPT ![0] = F0, ![1] = F0, ![Idx(-2, n)] = F0, ![Idx(-1, n)] = F0]

\* The builds of LAPACK's gesv differ in two places that matter on this
\* system: whether c - l * u is rounded twice or once (fused), and whether
\* the back substitution divides by the diagonal or multiplies by its
\* reciprocal.
Builds == [fused : BOOLEAN, reciprocal : BOOLEAN]

Update(c, l, u, build) ==
    IF build.fused THEN SFms(c, l, u) ELSE SSub(c, SMul(l, u))

Scale(x, d, build) ==
    IF build.reciprocal THEN SMul(x, SDiv(F1, d)) ELSE SDiv(x, d)

\* Inside the solver rows and columns are counted from 1 and every row is a
\* sequence, evaluated when it is built.
AtOnce(row) == <<>> \o row

ZeroBased(y) == [i \in 0..(Len(y) - 1) |-> y[i + 1]]

F64Augmented(A, b, n) ==
    AtOnce([r \in 1..n |->
        AtOnce([c \in 1..(n + 1) |->
            IF c = n + 1 THEN b[r - 1] ELSE SFromInt(A[r - 1][c - 1])])])

\* idamax: the first row from k down of largest magnitude in column k
F64PivotRow(M, k, n) ==
    CHOOSE r \in k..n :
        \A t \in k..n :
            \/ SAbsLess(M[t][k], M[r][k])
            \/ (~SAbsLess(M[r][k], M[t][k]) /\ r <= t)

\* row - l * pivot right of column k
F64ReduceRow(row, pivot, l, k, n, build) ==
    AtOnce([c \in 1..(n + 1) |->
        IF c < k THEN row[c]
        ELSE IF c = k THEN F0
        ELSE Update(row[c], l, pivot[c], build)])

\* getf2, column k: the multipliers are the column times the reciprocal rcp of
\* the pivot, then the rank-one update of what lies right of and below it (the
\* right-hand side rides along as column n + 1, which is the forward
\* substitution)
F64ReduceWith(M, rcp, k, n, build) ==
    AtOnce([r \in 1..n |->
        IF r <= k \/ M[r][k] = F0 THEN M[r]
        ELSE F64ReduceRow(M[r], M[k], SMul(M[r][k], rcp), k, n, build)])

F64ReduceBelow(M, k, n, build) == F64ReduceWith(M, SDiv(F1, M[k][k]), k, n, build)

RECURSIVE F64Eliminate(_, _, _, _)
F64EliminateAt(M, p, k, n, build) ==
    IF M[p][k] = F0 THEN [singular |-> TRUE, M |-> M]
    ELSE F64Eliminate(F64ReduceBelow(SwapRows(M, k, p), k, n, build), k + 1, n, build)

F64Eliminate(M, k, n, build) ==
    IF k = n + 1 THEN [singular |-> FALSE, M |-> M]
    ELSE F64EliminateAt(M, F64PivotRow(M, k, n), k, n, build)

\* y with y[k] = yk taken out of the rows above k
TakeOut(M, y, yk, k, build) ==
    AtOnce([i \in 1..Len(y) |->
        IF i = k THEN yk
        ELSE IF i < k /\ yk # F0 THEN Update(y[i], yk, M[i][k], build)
        ELSE y[i]])

\* trsm, upper triangle, column by column from the last: y[k] is scaled by the
\* diagonal, then taken out of the rows above
RECURSIVE F64BackSubstitute(_, _, _, _)
F64BackSubstitute(M, y, k, build) ==
    IF k < 1 THEN y
    ELSE F64BackSubstitute(M,
             TakeOut(M, y, IF y[k] = F0 THEN F0 ELSE Scale(y[k], M[k][k], build), k, build),
             k - 1, build)

F64Substitute(e, n, build) ==
    IF e.singular THEN [err |-> "LinAlgError", y |-> <<>>]
    ELSE [err |-> "none",
          y |-> ZeroBased(F64BackSubstitute(e.M, AtOnce([i \in 1..n |-> e.M[i][n + 1]]),
                                            n, build))]

F64Solve(A, b, n, build) ==
    F64Substitute(F64Eliminate(F64Augmented(A, b, n), 1, n, build), n, build)

SolveLSet == {2, 10}

SolvePSet == {35, 1000, 1300}

\* line 8: 2e11 * 8.333e-6 evaluates to 1666600.0
SolveEI == 1666600

InitSolve ==
    /\ \E l \in SolveLSet :
          /\ L = SFromInt(l)
          /\ a = SDiv(SFromInt(l), SFromInt(2))
    /\ P \in {SFromInt(p) : p \in SolvePSet}
    /\ EI = SFromInt(SolveEI)
    /\ spread = <<1, 20>>
    /\ dx = <<1, 10>>
    /\ N = 5
    /\ pc = "main"
    /\ log = <<>>
    /\ rk4_x_vals = <<>>
    /\ rk4_Y = Y0
    /\ rk4_y_deflections = <<>>
    /\ rk4_i = 0
    /\ cd_x_vals = <<>>
    /\ cd_dx = Zero
    /\ cd_A = <<>>
    /\ cd_b = <<>>
    /\ cd_i = 0
    /\ x_rk4 = <<>>
    /\ y_rk4 = <<>>
    /\ x_cdf = <<>>
    /\ y_cdf = <<>>

\* lines 58-59
F64RhsVector(xs, h) ==
    [i \in 0..(N - 1) |-> F64Rhs(F64gaussian_load(xs[i], a, SLiteral(1, 10)), h)]

\* lines 56-62
F64CDCall ==
    /\ pc = "main"
    /\ Len(log) < MaxCalls
    /\ cd_x_vals' = F64Linspace(L, N)
    /\ cd_dx' = SDiv(L, SFromInt(N - 1))
    /\ cd_A' = ZerosMatrix(N)
    /\ cd_b' = F64RhsVector(cd_x_vals', cd_dx')
    /\ cd_i' = 2
    /\ pc' = "cd_fill"
    /\ UNCHANGED <<params, log, rk4_locals, results>>

\* lines 73-74
F64CDBoundary ==
    /\ pc = "cd_fill"
    /\ cd_i >= N - 2
    /\ cd_A' = BoundaryA(cd_A, N)
    /\ cd_b' = F64BoundaryB(cd_b, N)
    /\ pc' = "cd_solve"
    /\ UNCHANGED <<params, log, rk4_locals, cd_x_vals, cd_dx, cd_i, results>>

\* lines 77-78, and line 95 of main
F64CDSolve ==
    /\ pc = "cd_solve"
    /\ \E build \in Builds : CDReturn(F64Solve(cd_A, cd_b, N, build))

NextSolve ==
    \/ F64CDCall
    \/ CDFill
    \/ F64CDBoundary
    \/ F64CDSolve

SpecSolve == InitSolve /\ [][NextSolve]_vars

\* the largest magnitude of a float64 curve
F64PeakOf(curve) ==
    CHOOSE m \in {curve[i] : i \in DOMAIN curve} :
        \A i \in DOMAIN curve : ~SAbsLess(m, curve[i])

\* C6: for N >= 5 rows 0, 1, N-2, N-1 of the assembled A are identity rows and
\* those entries of b are 0; the solved deflection is exactly 0 at 0, N-2 and
\* N-1, and at index 1 it is 0 up to the rounding of the elimination (within
\* 2^-50 of the largest deflection).
C6_BoundaryRowsForced ==
    /\ (pc = "cd_solve" /\ N >= 5) =>
          \A r \in BoundaryRows :
              /\ \A c \in 0..(N - 1) : cd_A[r][c] = (IF c = r THEN 1 ELSE 0)
              /\ cd_b[r] = F0
    /\ (N >= 5 /\ Ended("cd")) =>
          /\ \A r \in BoundaryRows \ {1} : y_cdf[r] = F0
          /\ SAbsWithin(y_cdf[1], F64PeakOf(y_cdf), -50)

C6_Witness ==
    /\ N >= 5
    /\ Ended("cd")
    /\ y_cdf[2] # F0
    /\ \A r \in BoundaryRows \ {1} : y_cdf[r] = F0

\* C6 as the specification states it: the solved deflection is exactly 0 at all
\* four boundary indices.
C6_AllFourExact ==
    (N >= 5 /\ Ended("cd")) => \A r \in BoundaryRows : y_cdf[r] = F0

====
